---- MODULE Spec2Model ----
(***************************************************************************)
(* Model of dfttk/structure_builders/sqs_db.py:                            *)
(*   _parse_atat_lattice   the pyparsing grammar of an ATAT lat.in         *)
(*   lat_in_to_sqs         parse tree -> abstract SQS                      *)
(*   SQSDatabase           the in-memory TinyDB of serialized SQS          *)
(*   get_structures_from_database / lists_are_multiple   the query         *)
(*                                                                         *)
(* Python strings are sequences of code points, so that chr(), lower(),    *)
(* split(), replace() and sorted() are computed as Python computes them.   *)
(***************************************************************************)
EXTENDS Integers, Sequences, FiniteSets, TLC

VARIABLES
    l1, l2, lam_out,                       \* lists_are_multiple(l1, l2) and its outcome
    db, query, results,                    \* the TinyDB, the last query, what it returned
    atat_lattice_in, rename, parsed_data, sqs,   \* lat_in_to_sqs: text, flag, parse, outcome
    subl, subl_out                         \* the digit-to-letter step on one designator

vars == <<l1, l2, lam_out, db, query, results,
          atat_lattice_in, rename, parsed_data, sqs, subl, subl_out>>

(***************************************************************************)
(* Bounds of the model.                                                    *)
(***************************************************************************)
MaxLen == 2          \* length of the ratio lists given to lists_are_multiple
MaxVal == 3          \* largest entry of those lists
MaxDocs == 2         \* documents in the database
MaxAtoms == 2        \* atom lines of a lattice file
MaxSublLen == 4      \* characters of a sublattice designator after its first letter

\* a local name bound to the value of x
Let(x, Body(_)) == CHOOSE y \in { Body(v) : v \in {x} } : TRUE

(***************************************************************************)
(* Python built-ins on strings (sequences of code points).                 *)
(***************************************************************************)
Lowercase == <<"a","b","c","d","e","f","g","h","i","j","k","l","m",
               "n","o","p","q","r","s","t","u","v","w","x","y","z">>
Uppercase == <<"A","B","C","D","E","F","G","H","I","J","K","L","M",
               "N","O","P","Q","R","S","T","U","V","W","X","Y","Z">>
Decimal == <<"0","1","2","3","4","5","6","7","8","9">>

ord(c) ==
    IF \E i \in 1..26 : Lowercase[i] = c
    THEN 96 + (CHOOSE i \in 1..26 : Lowercase[i] = c)
    ELSE IF \E i \in 1..26 : Uppercase[i] = c
    THEN 64 + (CHOOSE i \in 1..26 : Uppercase[i] = c)
    ELSE IF \E i \in 1..10 : Decimal[i] = c
    THEN 47 + (CHOOSE i \in 1..10 : Decimal[i] = c)
    ELSE 95                                   \* "_"

\* a Python string literal, given character by character
Str(cs) == [i \in 1..Len(cs) |-> ord(cs[i])]

chr(n) == n

isalpha(c) == c \in 65..90 \/ c \in 97..122
isdigit(c) == c \in 48..57

\* str.lower()
lower(s) == [i \in 1..Len(s) |-> IF s[i] \in 65..90 THEN s[i] + 32 ELSE s[i]]

\* str.split(sep) for a one-character separator
RECURSIVE split(_, _)
split(s, sep) ==
    IF \A i \in 1..Len(s) : s[i] # sep
    THEN <<s>>
    ELSE LET k == CHOOSE i \in 1..Len(s) : s[i] = sep /\ \A j \in 1..(i-1) : s[j] # sep
         IN  <<SubSeq(s, 1, k - 1)>> \o split(SubSeq(s, k + 1, Len(s)), sep)

\* int(s) of a string of decimal digits
RECURSIVE int(_)
int(s) == IF s = <<>> THEN 0 ELSE 10 * int(SubSeq(s, 1, Len(s) - 1)) + (s[Len(s)] - 48)

\* re.findall("\d+", s): the maximal runs of digits, left to right
RECURSIVE findall_digits(_)
findall_digits(s) ==
    IF s = <<>> THEN <<>>
    ELSE IF ~isdigit(s[1]) THEN findall_digits(Tail(s))
    ELSE LET n == CHOOSE k \in 1..Len(s) :
                      /\ \A j \in 1..k : isdigit(s[j])
                      /\ (k < Len(s) => ~isdigit(s[k + 1]))
         IN  <<SubSeq(s, 1, n)>> \o findall_digits(SubSeq(s, n + 1, Len(s)))

\* str.replace(old, new): every non-overlapping occurrence, scanning left to right
RECURSIVE replace(_, _, _)
replace(s, old, new) ==
    IF Len(s) < Len(old) THEN s
    ELSE IF SubSeq(s, 1, Len(old)) = old
    THEN new \o replace(SubSeq(s, Len(old) + 1, Len(s)), old, new)
    ELSE <<s[1]>> \o replace(Tail(s), old, new)

\* the order of Python's str comparison: lexicographic on code points
RECURSIVE StrLess(_, _)
StrLess(a, b) ==
    IF b = <<>> THEN FALSE
    ELSE IF a = <<>> THEN TRUE
    ELSE IF a[1] # b[1] THEN a[1] < b[1]
    ELSE StrLess(Tail(a), Tail(b))

\* sorted(S) of a set of strings
RECURSIVE sorted(_)
sorted(S) ==
    IF S = {} THEN <<>>
    ELSE LET m == CHOOSE x \in S : \A y \in S \ {x} : StrLess(x, y)
         IN  <<m>> \o sorted(S \ {m})

(***************************************************************************)
(* lists_are_multiple (sqs_db.py 279-302).  The outcome is "True",         *)
(* "False", or "ZeroDivisionError" when x % y is evaluated with y = 0.     *)
(***************************************************************************)
\* one pass of the loop body for the pair (a, b); the list comprehension
\* inside all([...]) evaluates x % y for every pair before all() looks at it
MultipleMissingSameK(a, b) ==
    IF \E i \in 1..Len(a) : b[i] = 0 THEN "ZeroDivisionError"
    ELSE IF \A i \in 1..Len(a) : a[i] % b[i] = 0 THEN "True" ELSE "False"

MultipleOneWay(a, b) ==
    IF \E i \in 1..Len(a) : b[i] = 0 THEN "ZeroDivisionError"
    ELSE IF /\ \A i \in 1..Len(a) : a[i] % b[i] = 0
            /\ Cardinality({a[i] \div b[i] : i \in 1..Len(a)}) = 1
         THEN "True"
         ELSE "False"

lists_are_multiple(a, b) ==
    IF Len(a) # Len(b) THEN "False"
    ELSE LET fwd == MultipleOneWay(a, b)
         IN  IF fwd # "False" THEN fwd ELSE MultipleOneWay(b, a)

(***************************************************************************)
(* SQSDatabase and get_structures_from_database (sqs_db.py 128-151,        *)
(* 255-309).  A document is a serialized SQS; the query reads its          *)
(* symmetry.symbol and its sublattice_site_ratios (a list of lists).       *)
(***************************************************************************)
Symmetries == {"Pm-3m", "Fm-3m"}

\* sublattice_site_ratios of the stored SQS: per sublattice, the site ratios of
\* its sites; the per-sublattice sums are [1,2], [2,4], [3,4], [2] and []
StoredSiteRatios ==
    { <<<<1>>, <<2>>>>, <<<<1, 1>>, <<2, 2>>>>, <<<<3>>, <<2, 2>>>>, <<<<1, 1>>>>, <<>> }

\* subl_site_ratios of a query
QueryRatios == { <<1, 2>>, <<2, 4>>, <<1>>, <<>> }

\* subl_model of a query: the outer length need not be that of subl_site_ratios
SublModels == { <<>>, <<<<"A", "B">>>>, <<<<"A", "B">>, <<"A">>>> }

RECURSIVE sum(_)
sum(xs) == IF xs = <<>> THEN 0 ELSE xs[1] + sum(Tail(xs))

\* [sum(subl) for subl in x]
SublatticeSums(x) == [i \in 1..Len(x) |-> sum(x[i])]

\* the mutant of QueryTest that joins the two conditions with "or"
QueryTestEither(doc, symmetry, subl_site_ratios) ==
    IF doc.symmetry.symbol = symmetry THEN "True"
    ELSE lists_are_multiple(SublatticeSums(doc.sublattice_site_ratios), subl_site_ratios)

\* (where('symmetry').symbol == symmetry) & (where('sublattice_site_ratios').test(...)):
\* the right operand is evaluated only for a document the left one accepts
QueryTest(doc, symmetry, subl_site_ratios) ==
    IF doc.symmetry.symbol # symmetry THEN "False"
    ELSE lists_are_multiple(SublatticeSums(doc.sublattice_site_ratios), subl_site_ratios)

\* db.search(cond): the documents cond accepts, in the order of the table; an
\* exception of cond ends the search and nothing is returned
RECURSIVE search(_, _, _)
search(docs, symmetry, subl_site_ratios) ==
    IF docs = <<>> THEN [raised |-> "none", docs |-> <<>>]
    ELSE Let(<<QueryTest(docs[1], symmetry, subl_site_ratios),
               search(Tail(docs), symmetry, subl_site_ratios)>>,
             LAMBDA tr :
                 IF tr[1] = "ZeroDivisionError" \/ tr[2].raised # "none"
                 THEN [raised |-> "ZeroDivisionError", docs |-> <<>>]
                 ELSE IF tr[1] = "True"
                 THEN [raised |-> "none", docs |-> <<docs[1]>> \o tr[2].docs]
                 ELSE tr[2])

\* the mutant of get_structures_from_database that insists on the documented
\* "outer dimension of subl_model = that of subl_site_ratios"
GetStructuresCheckingModel(database, symmetry, subl_model, subl_site_ratios) ==
    IF Len(subl_model) # Len(subl_site_ratios)
    THEN [raised |-> "none", docs |-> <<>>]
    ELSE search(database, symmetry, subl_site_ratios)

get_structures_from_database(database, symmetry, subl_model, subl_site_ratios) ==
    search(database, symmetry, subl_site_ratios)

NoQuery == [called |-> FALSE, symmetry |-> "", subl_model |-> <<>>, subl_site_ratios |-> <<>>]
NoResults == [raised |-> "none", docs |-> <<>>]

(***************************************************************************)
(* The text of a lattice file, as the grammar's terminals see it: a float  *)
(* (what the float_number Regex matches), a line break, a word (what       *)
(* Word(alphas, alphanums + '_') matches: it begins with a letter), and    *)
(* the rest of a label that begins with a digit: at "2_A" the Regex        *)
(* matches "2" and nothing in the grammar matches "_A".                    *)
(***************************************************************************)
Float(v) == [k |-> "F", v |-> v, s |-> <<>>]
NL == [k |-> "NL", v |-> 0, s |-> <<>>]
WordTok(s) == [k |-> "W", v |-> 0, s |-> s]
JunkTok(s) == [k |-> "J", v |-> 0, s |-> s]

\* the terminals of one label of an atom line
LexLabel(s) ==
    IF isalpha(s[1]) THEN <<WordTok(s)>>
    ELSE LET n == Len(findall_digits(s)[1])
         IN  <<Float(int(SubSeq(s, 1, n))), JunkTok(SubSeq(s, n + 1, Len(s)))>>

Fail == [ok |-> FALSE, next |-> 0, val |-> <<>>]
Match(next, val) == [ok |-> TRUE, next |-> next, val |-> val]

\* pyparsing's And: the next element is tried where the last one ended
Then(r, Rest(_)) == Let(r, LAMBDA v : IF v.ok THEN Rest(v) ELSE Fail)

\* the default whitespace of a pyparsing element includes the line break
RECURSIVE SkipWhite(_, _)
SkipWhite(s, i) ==
    IF i <= Len(s) /\ s[i].k = "NL" THEN SkipWhite(s, i + 1) ELSE i

float_number(s, i) ==
    Let(SkipWhite(s, i),
        LAMBDA j : IF j <= Len(s) /\ s[j].k = "F" THEN Match(j + 1, s[j].v) ELSE Fail)

\* Group(float_number + float_number + float_number)
vector(s, i) ==
    Then(float_number(s, i), LAMBDA a :
    Then(float_number(s, a.next), LAMBDA b :
    Then(float_number(s, b.next), LAMBDA c :
    Match(c.next, <<a.val, b.val, c.val>>))))

\* LineEnd(): its whitespace excludes the line break; it matches a line break
\* or the end of the string
LineEnd(s, i) ==
    IF i > Len(s) THEN Match(i + 1, <<>>)
    ELSE IF s[i].k = "NL" THEN Match(i + 1, <<>>)
    ELSE Fail

\* the mutant of vector_line that lets a vector end anywhere on its line
vector_line_anywhere(s, i) == vector(s, i)

\* vector + Suppress(LineEnd())
vector_line(s, i) ==
    Then(vector(s, i), LAMBDA v :
    Then(LineEnd(s, v.next), LAMBDA e :
    Match(e.next, v.val)))

\* vector_line + vector_line + vector_line
three_vector_lines(s, i) ==
    Then(vector_line(s, i), LAMBDA a :
    Then(vector_line(s, a.next), LAMBDA b :
    Then(vector_line(s, b.next), LAMBDA c :
    Match(c.next, <<a.val, b.val, c.val>>))))

\* vector + angles + Suppress(LineEnd())
lengths_and_angles(s, i) ==
    Then(vector(s, i), LAMBDA a :
    Then(vector(s, a.next), LAMBDA b :
    Then(LineEnd(s, b.next), LAMBDA e :
    Match(e.next, <<a.val, b.val>>))))

\* Group(... | ...): MatchFirst takes the first alternative that matches and
\* never comes back to try the other
coord_sys(s, i) ==
    Let(three_vector_lines(s, i),
        LAMBDA a : IF a.ok THEN a ELSE lengths_and_angles(s, i))

\* Group(vector + vector + vector)
lattice(s, i) ==
    Then(vector(s, i), LAMBDA a :
    Then(vector(s, a.next), LAMBDA b :
    Then(vector(s, b.next), LAMBDA c :
    Match(c.next, <<a.val, b.val, c.val>>))))

\* Word(alphas, alphanums + '_')
word(s, i) ==
    Let(SkipWhite(s, i),
        LAMBDA j : IF j <= Len(s) /\ s[j].k = "W" THEN Match(j + 1, s[j].s) ELSE Fail)

\* OneOrMore(Word(...))
RECURSIVE words(_, _)
words(s, i) ==
    Then(word(s, i), LAMBDA w :
    Let(words(s, w.next), LAMBDA more :
        IF more.ok THEN Match(more.next, <<w.val>> \o more.val)
        ELSE Match(w.next, <<w.val>>)))

\* Group(vector + Group(OneOrMore(Word(...))))
atom(s, i) ==
    Then(vector(s, i), LAMBDA v :
    Then(words(s, v.next), LAMBDA w :
    Match(w.next, [position |-> v.val, atoms |-> w.val])))

\* Group(OneOrMore(atom))
RECURSIVE atoms_group(_, _)
atoms_group(s, i) ==
    Then(atom(s, i), LAMBDA a :
    Let(atoms_group(s, a.next), LAMBDA more :
        IF more.ok THEN Match(more.next, <<a.val>> \o more.val)
        ELSE Match(a.next, <<a.val>>)))

Unparsed == [raised |-> "unparsed", coord_sys |-> <<>>, lattice |-> <<>>, atoms |-> <<>>]
ParseException == [raised |-> "ParseException", coord_sys |-> <<>>, lattice |-> <<>>, atoms |-> <<>>]

\* atat_lattice_grammer.parseString(lattice_in): text after the last atom the
\* grammar matches is not looked at
_parse_atat_lattice(lattice_in) ==
    Let(Then(coord_sys(lattice_in, 1), LAMBDA c :
        Then(lattice(lattice_in, c.next), LAMBDA l :
        Then(atoms_group(lattice_in, l.next), LAMBDA a :
        Match(a.next, [raised |-> "none", coord_sys |-> c.val,
                       lattice |-> l.val, atoms |-> a.val])))),
        LAMBDA r : IF r.ok THEN r.val ELSE ParseException)

(***************************************************************************)
(* lat_in_to_sqs (sqs_db.py 54-125).                                       *)
(***************************************************************************)
Underscore == Str(<<"_">>)[1]
LetterX == Str(<<"X">>)

\* lines 108-110: every digit run that re.findall reports is replaced, in
\* turn, by str.replace, which rewrites each occurrence of that run in subl
RECURSIVE replace_items(_, _)
replace_items(designator, rep_items) ==
    IF rep_items = <<>> THEN designator
    ELSE replace_items(
             replace(designator, rep_items[1], <<chr(96 + int(rep_items[1]))>>),
             Tail(rep_items))

digits_to_alphas(designator) == replace_items(designator, findall_digits(designator))

\* the mutant of SplitAtom that lower-cases the sublattice part only
SplitAtomKeepingSpecies(token) ==
    LET parts == split(token, Underscore)
    IN  <<lower(parts[1])>> \o Tail(parts)

\* line 102: atom.lower().split('_')
SplitAtom(token) == split(lower(token), Underscore)

\* subl_model[subl] = subl_model.get(subl, set()).union({subl_atom})
DictUnion(m, key, member) ==
    [x \in DOMAIN m \cup {key} |->
        IF x = key THEN (IF key \in DOMAIN m THEN m[key] ELSE {}) \cup {member}
        ELSE m[x]]

EmptyDict == [x \in {} |-> {}]

Raised(e) == [raised |-> e]
Unclear == "NotImplementedError: the sublattice is unclear"
CannotRename == "NotImplementedError: cannot rename"

\* the mutant of EmitAtom that lists a label once however often it occurs
EmitAtomOnce(acc, position, sub, subl_atom) ==
    LET label == LetterX \o sub \o subl_atom
    IN  IF \E i \in 1..Len(acc.species_list) : acc.species_list[i] = label
        THEN [acc EXCEPT !.subl_model = DictUnion(acc.subl_model, sub, subl_atom)]
        ELSE [raised |-> "none",
              species_list |-> Append(acc.species_list, label),
              species_positions |-> Append(acc.species_positions, position),
              subl_model |-> DictUnion(acc.subl_model, sub, subl_atom)]

\* lines 112-115
EmitAtom(acc, position, sub, subl_atom) ==
    [raised |-> "none",
     species_list |-> Append(acc.species_list, LetterX \o sub \o subl_atom),
     species_positions |-> Append(acc.species_positions, position),
     subl_model |-> DictUnion(acc.subl_model, sub, subl_atom)]

\* the mutant of AtomStep without the test of line 96
AtomStepFirstAtom(acc, record, do_rename) ==
    IF ~do_rename THEN Raised(CannotRename)
    ELSE LET atm == SplitAtom(record.atoms[1])
             sub == digits_to_alphas(atm[1])
         IN  IF Len(atm) < 2 THEN Raised("IndexError")
             ELSE EmitAtom(acc, record.position, sub, atm[2])

\* lines 95-115, the body of the loop; atom[1] of a token without '_' is an IndexError
AtomStep(acc, record, do_rename) ==
    IF Len(record.atoms) > 1 THEN Raised(Unclear)
    ELSE IF ~do_rename THEN Raised(CannotRename)
    ELSE LET atm == SplitAtom(record.atoms[1])
             sub == digits_to_alphas(atm[1])
         IN  IF Len(atm) < 2 THEN Raised("IndexError")
             ELSE EmitAtom(acc, record.position, sub, atm[2])

\* line 94: the loop over atat_atoms; an exception ends it
RECURSIVE AtomsLoop(_, _, _)
AtomsLoop(atat_atoms, do_rename, acc) ==
    IF atat_atoms = <<>> THEN acc
    ELSE Let(AtomStep(acc, atat_atoms[1], do_rename),
             LAMBDA r : IF r.raised # "none" THEN r
                        ELSE AtomsLoop(Tail(atat_atoms), do_rename, r))

\* the mutant of SublatticeNames that sorts the keys in descending order
SublatticeNamesDescending(acc) ==
    LET up == sorted(DOMAIN acc.subl_model)
    IN  [i \in 1..Len(up) |-> up[Len(up) + 1 - i]]

\* line 118: [s for s in sorted(subl_model.keys())]
SublatticeNames(acc) == sorted(DOMAIN acc.subl_model)

\* line 117
SublatticeModel(acc) ==
    LET names == sorted(DOMAIN acc.subl_model)
    IN  [i \in 1..Len(names) |-> sorted(acc.subl_model[names[i]])]

\* lines 79-89: the Lattice arithmetic is pymatgen's; the model keeps what it is given
CoordSystem(atat_coord_system) ==
    IF Len(atat_coord_system) = 3
    THEN [lattice_from |-> "matrix", of |-> atat_coord_system]
    ELSE [lattice_from |-> "parameters", of |-> atat_coord_system]

Uncalled == Raised("uncalled")

NoAtoms == [raised |-> "none", species_list |-> <<>>,
            species_positions |-> <<>>, subl_model |-> EmptyDict]

Descriptor(parsed, acc) ==
    [raised |-> "none",
     direct_lattice |-> parsed.lattice,
     lattice |-> [dot |-> <<CoordSystem(parsed.coord_sys), parsed.lattice>>],
     species_list |-> acc.species_list,
     species_positions |-> acc.species_positions,
     sublattice_model |-> SublatticeModel(acc),
     sublattice_names |-> SublatticeNames(acc)]

lat_in_to_sqs(text, do_rename) ==
    Let(_parse_atat_lattice(text), LAMBDA parsed :
        IF parsed.raised # "none" THEN Raised("ParseException")
        ELSE Let(AtomsLoop(parsed.atoms, do_rename, NoAtoms), LAMBDA acc :
                 IF acc.raised # "none" THEN acc ELSE Descriptor(parsed, acc)))

(***************************************************************************)
(* Values of the variables an operation does not touch.                    *)
(***************************************************************************)
lamVars == <<l1, l2, lam_out>>
matchVars == <<db, query, results>>
buildVars == <<atat_lattice_in, rename, parsed_data, sqs>>
translateVars == <<subl, subl_out>>

NotTranslated == [done |-> FALSE, value |-> <<>>]

IdleLam == l1 = <<>> /\ l2 = <<>> /\ lam_out = "none"
IdleMatch == db = <<>> /\ query = NoQuery /\ results = NoResults
IdleBuild == atat_lattice_in = <<>> /\ rename = TRUE /\ parsed_data = Unparsed /\ sqs = Uncalled
IdleTranslate == subl = <<>> /\ subl_out = NotTranslated

(***************************************************************************)
(* Specification of lists_are_multiple as a pure function.                 *)
(***************************************************************************)
ExampleLists == { <<3, 4>>, <<1, 2>>, <<3, 5>>, <<6, 10>>, <<9, 10>>, <<2, 4>> }

RatioLists == UNION { [1..n -> 0..MaxVal] : n \in 0..MaxLen } \cup ExampleLists

InitLam ==
    /\ l1 \in RatioLists /\ l2 \in RatioLists /\ lam_out = "none"
    /\ IdleMatch /\ IdleBuild /\ IdleTranslate

CallListsAreMultiple ==
    /\ lam_out = "none"
    /\ lam_out' = lists_are_multiple(l1, l2)
    /\ UNCHANGED <<l1, l2, matchVars, buildVars, translateVars>>

NextLam == CallListsAreMultiple

SpecLam == InitLam /\ [][NextLam]_vars

(***************************************************************************)
(* Specification of the database: SQSDatabase inserts the documents, then  *)
(* the database is queried.                                                *)
(***************************************************************************)
InitMatch ==
    /\ db = <<>> /\ query = NoQuery /\ results = NoResults
    /\ IdleLam /\ IdleBuild /\ IdleTranslate

\* db.insert(json.load(file_)) inside SQSDatabase; TinyDB numbers the documents
Insert ==
    /\ ~query.called
    /\ Len(db) < MaxDocs
    /\ \E sym \in Symmetries, x \in StoredSiteRatios :
           db' = Append(db, [doc_id |-> Len(db) + 1,
                             symmetry |-> [symbol |-> sym],
                             sublattice_site_ratios |-> x])
    /\ UNCHANGED <<query, results, lamVars, buildVars, translateVars>>

GetStructuresFromDatabase ==
    /\ \E symmetry \in Symmetries, subl_model \in SublModels, subl_site_ratios \in QueryRatios :
           /\ query' = [called |-> TRUE, symmetry |-> symmetry, subl_model |-> subl_model,
                        subl_site_ratios |-> subl_site_ratios]
           /\ results' = get_structures_from_database(db, symmetry, subl_model, subl_site_ratios)
    /\ UNCHANGED <<db, lamVars, buildVars, translateVars>>

NextMatch == Insert \/ GetStructuresFromDatabase

SpecMatch == InitMatch /\ [][NextMatch]_vars

(***************************************************************************)
(* Specification of lat_in_to_sqs and _parse_atat_lattice: the lattice     *)
(* files are a coordinate system in one of three layouts, the three        *)
(* lattice vectors in one of two, and up to MaxAtoms atom lines.           *)
(***************************************************************************)
\* the n-th vector of the file; its components tell the vectors apart
Vec(n) == <<Float(3 * n + 1), Float(3 * n + 2), Float(3 * n + 3)>>

CoordLayouts == {"matrix", "two lines", "one line"}
LatticeLayouts == {"three lines", "one line"}

CoordVectors(c) == IF c = "matrix" THEN 3 ELSE 2

CoordText(c) ==
    IF c = "matrix" THEN Vec(0) \o <<NL>> \o Vec(1) \o <<NL>> \o Vec(2) \o <<NL>>
    ELSE IF c = "two lines" THEN Vec(0) \o <<NL>> \o Vec(1) \o <<NL>>
    ELSE Vec(0) \o Vec(1) \o <<NL>>

LatticeText(l, n) ==
    IF l = "three lines" THEN Vec(n) \o <<NL>> \o Vec(n + 1) \o <<NL>> \o Vec(n + 2) \o <<NL>>
    ELSE Vec(n) \o Vec(n + 1) \o Vec(n + 2) \o <<NL>>

\* the labels of an atom line
AtomLabels ==
    { <<Str(<<"a", "_", "B">>)>>,
      <<Str(<<"2", "_", "A">>)>>,
      <<Str(<<"b", "_", "A">>)>>,
      <<Str(<<"B", "_", "a">>)>>,
      <<Str(<<"a", "_", "A">>)>>,
      <<Str(<<"c", "2", "_", "B">>)>>,
      <<Str(<<"A", "l">>)>>,
      <<Str(<<"a", "_", "A">>), Str(<<"b", "_", "B">>)>> }

RECURSIVE LabelsText(_)
LabelsText(labels) ==
    IF labels = <<>> THEN <<>> ELSE LexLabel(labels[1]) \o LabelsText(Tail(labels))

RECURSIVE AtomsText(_, _)
AtomsText(lines, n) ==
    IF lines = <<>> THEN <<>>
    ELSE Vec(n) \o LabelsText(lines[1]) \o <<NL>> \o AtomsText(Tail(lines), n + 1)

LatIn(c, l, lines) ==
    CoordText(c) \o LatticeText(l, CoordVectors(c)) \o AtomsText(lines, CoordVectors(c) + 3)

LatticeFiles ==
    { LatIn(c, l, lines) : c \in CoordLayouts, l \in LatticeLayouts,
                           lines \in UNION { [1..n -> AtomLabels] : n \in 0..MaxAtoms } }

InitBuild ==
    /\ atat_lattice_in \in LatticeFiles
    /\ rename = TRUE /\ parsed_data = Unparsed /\ sqs = Uncalled
    /\ IdleLam /\ IdleMatch /\ IdleTranslate

ParseAtatLattice ==
    /\ parsed_data = Unparsed
    /\ parsed_data' = _parse_atat_lattice(atat_lattice_in)
    /\ UNCHANGED <<atat_lattice_in, rename, sqs, lamVars, matchVars, translateVars>>

LatInToSqs ==
    /\ sqs = Uncalled
    /\ \E r \in BOOLEAN :
           /\ rename' = r
           /\ sqs' = lat_in_to_sqs(atat_lattice_in, r)
    /\ UNCHANGED <<atat_lattice_in, parsed_data, lamVars, matchVars, translateVars>>

NextBuild == ParseAtatLattice \/ LatInToSqs

SpecBuild == InitBuild /\ [][NextBuild]_vars

(***************************************************************************)
(* Specification of the digit-to-letter step as a pure function of the     *)
(* lower-cased sublattice designator, which begins with a letter.          *)
(***************************************************************************)
SublChars == { Str(<<c>>)[1] : c \in {"g", "h", "1", "2"} }

Designators ==
    { Str(<<"g">>) \o rest : rest \in UNION { [1..n -> SublChars] : n \in 0..MaxSublLen } }

InitTranslate ==
    /\ subl \in Designators /\ subl_out = NotTranslated
    /\ IdleLam /\ IdleMatch /\ IdleBuild

DigitsToAlphas ==
    /\ ~subl_out.done
    /\ subl_out' = [done |-> TRUE, value |-> digits_to_alphas(subl)]
    /\ UNCHANGED <<subl, lamVars, matchVars, buildVars>>

NextTranslate == DigitsToAlphas

SpecTranslate == InitTranslate /\ [][NextTranslate]_vars

(***************************************************************************)
(* Claims about lists_are_multiple, checked under SpecLam.                 *)
(***************************************************************************)
AllPositive(l) == \A i \in 1..Len(l) : l[i] >= 1

\* there is a single scalar k with a[i] = k * b[i] at every index: exactly one k
\* does (for two empty lists every k does, so no single one)
SingleScalar(a, b) ==
    Cardinality({ k \in 0..(MaxVal + 10) : \A i \in 1..Len(a) : a[i] = k * b[i] }) = 1

C3_SymmetricInItsArguments ==
    lam_out # "none" => lam_out = lists_are_multiple(l2, l1)

(***************************************************************************)
(* Claims about get_structures_from_database, checked under SpecMatch.     *)
(***************************************************************************)
\* proportional ratio lists: of equal length, one a single scalar multiple of
\* the other
Proportional(rc, rq) ==
    /\ Len(rc) = Len(rq)
    /\ SingleScalar(rc, rq) \/ SingleScalar(rq, rc)

MatchingIndices ==
    { i \in 1..Len(db) :
        /\ db[i].symmetry.symbol = query.symmetry
        /\ Proportional(SublatticeSums(db[i].sublattice_site_ratios), query.subl_site_ratios) }

AtatAtoms == _parse_atat_lattice(atat_lattice_in).atoms

\* what a token stands for: the part before the first '_', lower-cased and with
\* its digits translated, and the part after it
SublOf(token) == digits_to_alphas(lower(split(token, Underscore)[1]))
SpeciesOf(token) == split(token, Underscore)[2]

Ascending(strs) == \A i, j \in 1..Len(strs) : i < j => StrLess(strs[i], strs[j])

Range(f) == { f[i] : i \in DOMAIN f }

Reorderings(n) == { p \in [1..n -> 1..n] : \A i, j \in 1..n : p[i] = p[j] => i = j }

\* C4: on success sublattice_names is the ascending, duplicate-free list of the
\* observed sublattice keys, sublattice_model[i] the ascending, duplicate-free list
\* of the species seen in sublattice_names[i], and both are what every permutation
\* of the atom records gives.
C4_CanonicalModelIsOrderIndependent ==
    sqs.raised = "none" =>
        LET recs  == AtatAtoms
            names == sqs.sublattice_names
            model == sqs.sublattice_model
        IN  /\ Len(names) = Len(model)
            /\ Ascending(names)
            /\ Range(names) = { SublOf(recs[i].atoms[1]) : i \in 1..Len(recs) }
            /\ \A n \in 1..Len(names) :
                   /\ Ascending(model[n])
                   /\ Range(model[n]) =
                          { lower(SpeciesOf(recs[i].atoms[1])) :
                                i \in { h \in 1..Len(recs) : SublOf(recs[h].atoms[1]) = names[n] } }
            /\ \A p \in Reorderings(Len(recs)) :
                   LET acc == AtomsLoop([i \in 1..Len(recs) |-> recs[p[i]]], TRUE, NoAtoms)
                   IN  /\ acc.raised = "none"
                       /\ SublatticeNames(acc) = names
                       /\ SublatticeModel(acc) = model

C4_Witness ==
    /\ sqs.raised = "none"
    /\ sqs.species_list = <<Str(<<"X", "b", "a">>), Str(<<"X", "a", "b">>)>>
    /\ sqs.sublattice_names = <<Str(<<"a">>), Str(<<"b">>)>>
    /\ sqs.sublattice_model = <<<<Str(<<"b">>)>>, <<Str(<<"a">>)>>>>

\* C5: on success the label list and the position list have one entry per atom
\* record, the i-th entries being those of the i-th record.
C5_ListsMirrorInputOrder ==
    sqs.raised = "none" =>
        LET recs == AtatAtoms
        IN  /\ Len(sqs.species_list) = Len(recs)
            /\ Len(sqs.species_positions) = Len(recs)
            /\ \A i \in 1..Len(recs) :
                   /\ sqs.species_positions[i] = recs[i].position
                   /\ sqs.species_list[i] =
                          LetterX \o SublOf(recs[i].atoms[1])
                                  \o lower(SpeciesOf(recs[i].atoms[1]))

C5_Witness ==
    /\ sqs.raised = "none"
    /\ Len(sqs.species_list) = 2
    /\ sqs.species_list[1] = sqs.species_list[2]
    /\ sqs.species_positions[1] # sqs.species_positions[2]

\* C6, as stated: the species part of a token is kept verbatim in the label,
\* "X" + translated sublattice + species.
C6_SpeciesKeptVerbatim ==
    sqs.raised = "none" =>
        \A i \in 1..Len(AtatAtoms) :
            sqs.species_list[i] =
                LetterX \o SublOf(AtatAtoms[i].atoms[1]) \o SpeciesOf(AtatAtoms[i].atoms[1])

TheLabels(lines) ==
    \E c \in CoordLayouts, l \in LatticeLayouts : atat_lattice_in = LatIn(c, l, lines)

\* C6, amended: the whole token is lower-cased before it is split, so the species
\* is lower-cased like the sublattice: the label is "X" + translated sublattice +
\* lower-cased species, and that lower-cased species is the one in
\* sublattice_model.  Tokens "a_B" and "b_A" give sublattice_names ["a","b"],
\* sublattice_model [["b"],["a"]] and labels "Xab" and "Xba"; a token begins with
\* a letter, so after "a_B" a line labelled "2_A" is not read as an atom.
C6_WholeTokenLowerCased ==
    sqs.raised = "none" =>
        /\ \A i \in 1..Len(AtatAtoms) :
               LET token == AtatAtoms[i].atoms[1]
               IN  /\ sqs.species_list[i] =
                          LetterX \o SublOf(token) \o lower(SpeciesOf(token))
                   /\ \E n \in 1..Len(sqs.sublattice_names) :
                          /\ sqs.sublattice_names[n] = SublOf(token)
                          /\ lower(SpeciesOf(token)) \in Range(sqs.sublattice_model[n])
        /\ TheLabels(<< <<Str(<<"a", "_", "B">>)>>, <<Str(<<"b", "_", "A">>)>> >>) =>
               /\ sqs.sublattice_names = <<Str(<<"a">>), Str(<<"b">>)>>
               /\ sqs.sublattice_model = <<<<Str(<<"b">>)>>, <<Str(<<"a">>)>>>>
               /\ sqs.species_list = <<Str(<<"X", "a", "b">>), Str(<<"X", "b", "a">>)>>
        /\ TheLabels(<< <<Str(<<"a", "_", "B">>)>>, <<Str(<<"2", "_", "A">>)>> >>) =>
               /\ sqs.sublattice_names = <<Str(<<"a">>)>>
               /\ sqs.species_list = <<Str(<<"X", "a", "b">>)>>

C6_Witness ==
    /\ sqs.raised = "none"
    /\ TheLabels(<< <<Str(<<"a", "_", "B">>)>>, <<Str(<<"b", "_", "A">>)>> >>)
    /\ sqs.species_list = <<Str(<<"X", "a", "b">>), Str(<<"X", "b", "a">>)>>

SeveralAtoms == { i \in 1..Len(AtatAtoms) : Len(AtatAtoms[i].atoms) > 1 }

NoSeparator(i) == Len(split(AtatAtoms[i].atoms[1], Underscore)) < 2

\* C7, as stated: with rename requested, a parsed file one of whose atom records
\* has more than one label fails with the ambiguous-sublattice error, whatever the
\* other records are, and returns nothing.
C7_AlwaysTheAmbiguousError ==
    (sqs # Uncalled /\ rename /\ SeveralAtoms # {}) => sqs = Raised(Unclear)

\* C7, amended: such a file always fails and returns nothing; the error is the
\* ambiguous-sublattice error unless a record before the first one with several
\* labels has a label without '_', and then it is that record's IndexError.
C7_FailsAtTheFirstBadRecord ==
    (sqs # Uncalled /\ rename /\ SeveralAtoms # {}) =>
        LET first == CHOOSE i \in SeveralAtoms : \A h \in SeveralAtoms : i <= h
        IN  IF \E h \in 1..(first - 1) : NoSeparator(h)
            THEN sqs = Raised("IndexError")
            ELSE sqs = Raised(Unclear)

C7_Witness ==
    /\ sqs = Raised(Unclear) /\ rename
    /\ Len(AtatAtoms) = 2
    /\ Len(AtatAtoms[1].atoms) = 1 /\ Len(AtatAtoms[2].atoms) = 2

(***************************************************************************)
(* Claim about the digit-to-letter step, checked under SpecTranslate.      *)
(***************************************************************************)
\* each maximal digit run replaced, where it stands, by the letter of its value
RECURSIVE RunByRun(_)
RunByRun(s) ==
    IF s = <<>> THEN <<>>
    ELSE IF ~isdigit(s[1]) THEN <<s[1]>> \o RunByRun(Tail(s))
    ELSE LET n == Len(findall_digits(s)[1])
         IN  <<96 + int(SubSeq(s, 1, n))>> \o RunByRun(SubSeq(s, n + 1, Len(s)))

\* C8, as stated: every maximal run of digits of value d in 1..26 becomes the one
\* letter 'a' + d - 1, each run by its own value only, and the other characters
\* stay as they are.
C8_EachRunByItsOwnValue ==
    (subl_out.done /\ \A i \in 1..Len(findall_digits(subl)) :
                          int(findall_digits(subl)[i]) \in 1..26) =>
        subl_out.value = RunByRun(subl)

(***************************************************************************)
(* Claim about _parse_atat_lattice, checked under SpecBuild.  A text is    *)
(* described by its lines.                                                 *)
(***************************************************************************)
RECURSIVE Lines(_)
Lines(text) ==
    IF text = <<>> THEN <<>>
    ELSE IF \A i \in 1..Len(text) : text[i].k # "NL" THEN <<text>>
    ELSE LET k == CHOOSE i \in 1..Len(text) :
                      text[i].k = "NL" /\ \A j \in 1..(i - 1) : text[j].k # "NL"
         IN  <<SubSeq(text, 1, k - 1)>> \o Lines(SubSeq(text, k + 1, Len(text)))

AllFloats(line) == \A i \in 1..Len(line) : line[i].k = "F"

\* the n-th vector written on a line of floats
VectorOn(line, n) == <<line[3 * n - 2].v, line[3 * n - 1].v, line[3 * n].v>>

IsVectorLine(line) == Len(line) = 3 /\ AllFloats(line)

\* a position and one or more labels made of letters, digits and '_'
IsAtomLine(line) ==
    /\ Len(line) >= 4
    /\ AllFloats(SubSeq(line, 1, 3))
    /\ line[4].k \in {"W", "F"}
    /\ \A j \in 4..Len(line) :
           \/ line[j].k = "W"
           \/ line[j].k = "F" /\ j < Len(line) /\ line[j + 1].k = "J"
           \/ line[j].k = "J" /\ line[j - 1].k = "F"

\* the same with every label beginning with a letter
IsWordAtomLine(line) ==
    /\ Len(line) >= 4
    /\ AllFloats(SubSeq(line, 1, 3))
    /\ \A j \in 4..Len(line) : line[j].k = "W"

\* the number of lines the three lattice vectors take from line n on: three
\* lines of one vector, or one line of three; 0 if neither is there
LatticeLines(lines, n) ==
    IF Len(lines) >= n + 2 /\ \A h \in n..(n + 2) : IsVectorLine(lines[h]) THEN 3
    ELSE IF Len(lines) >= n /\ Len(lines[n]) = 9 /\ AllFloats(lines[n]) THEN 1
    ELSE 0

LatticeVectors(lines, n) ==
    IF LatticeLines(lines, n) = 3
    THEN <<VectorOn(lines[n], 1), VectorOn(lines[n + 1], 1), VectorOn(lines[n + 2], 1)>>
    ELSE <<VectorOn(lines[n], 1), VectorOn(lines[n], 2), VectorOn(lines[n], 3)>>

\* the lines after a coordinate system of c lines: the lattice, then atom lines only
AtomLinesFrom(lines, c) == c + LatticeLines(lines, c + 1) + 1

WellFormedAfter(lines, c, IsAtom(_)) ==
    /\ LatticeLines(lines, c + 1) > 0
    /\ \A h \in AtomLinesFrom(lines, c)..Len(lines) : IsAtom(lines[h])

\* the parse tree holds the lattice vectors and every atom line after them
HoldsLatticeAndAtoms(lines, c) ==
    LET first == AtomLinesFrom(lines, c)
    IN  /\ parsed_data.raised = "none"
        /\ parsed_data.lattice = LatticeVectors(lines, c + 1)
        /\ Len(parsed_data.atoms) = Len(lines) - first + 1
        /\ \A i \in 1..Len(parsed_data.atoms) :
               LET line == lines[first + i - 1]
               IN  /\ parsed_data.atoms[i].position = VectorOn(line, 1)
                   /\ IsWordAtomLine(line) =>
                          parsed_data.atoms[i].atoms = [j \in 1..(Len(line) - 3) |-> line[j + 3].s]

MatrixForm(lines, IsAtom(_)) ==
    /\ Len(lines) >= 3 /\ \A h \in 1..3 : IsVectorLine(lines[h])
    /\ WellFormedAfter(lines, 3, IsAtom)

TwoLineForm(lines, IsAtom(_)) ==
    /\ Len(lines) >= 2 /\ \A h \in 1..2 : IsVectorLine(lines[h])
    /\ WellFormedAfter(lines, 2, IsAtom)

OneLineForm(lines, IsAtom(_)) ==
    /\ Len(lines) >= 1 /\ Len(lines[1]) = 6 /\ AllFloats(lines[1])
    /\ WellFormedAfter(lines, 1, IsAtom)

HasAtoms(lines, c) == AtomLinesFrom(lines, c) <= Len(lines)

NoAtomLine(lines) == \A h \in 1..Len(lines) : AllFloats(lines[h])

\* C9, as stated: three single-vector lines, the lattice vectors and one or more
\* atom records parse to a coordinate system of three vectors; a line of lengths,
\* a line of angles, the lattice vectors and one or more atom records parse to a
\* coordinate system of two vectors; the lattice group holds the three lattice
\* vectors and the atom group every atom record; a text without atom record fails.
C9_BothFormsAccepted ==
    parsed_data # Unparsed =>
        LET lines == Lines(atat_lattice_in)
        IN  /\ (MatrixForm(lines, IsAtomLine) /\ HasAtoms(lines, 3)) =>
                   /\ HoldsLatticeAndAtoms(lines, 3)
                   /\ parsed_data.coord_sys = [h \in 1..3 |-> VectorOn(lines[h], 1)]
            /\ (TwoLineForm(lines, IsAtomLine) /\ HasAtoms(lines, 2)) =>
                   /\ HoldsLatticeAndAtoms(lines, 2)
                   /\ parsed_data.coord_sys = [h \in 1..2 |-> VectorOn(lines[h], 1)]
            /\ NoAtomLine(lines) => parsed_data = ParseException

\* C9, amended: an atom record is a position followed by labels that begin with a
\* letter.  The matrix form parses as stated.  The lengths/angles form is lengths
\* and angles on ONE line (six floats): it parses to a coordinate system of two
\* vectors.  Lengths and angles on two lines are taken for the first two rows of a
\* matrix: if the first lattice vector is alone on its line it is read as the third
\* row and the parse fails with ParseException; if the three lattice vectors share
\* a line the text parses to a coordinate system of two vectors.  A text without
\* atom record fails.
C9_LengthsAndAnglesOnOneLine ==
    parsed_data # Unparsed =>
        LET lines == Lines(atat_lattice_in)
        IN  /\ (MatrixForm(lines, IsWordAtomLine) /\ HasAtoms(lines, 3)) =>
                   /\ HoldsLatticeAndAtoms(lines, 3)
                   /\ parsed_data.coord_sys = [h \in 1..3 |-> VectorOn(lines[h], 1)]
            /\ (OneLineForm(lines, IsWordAtomLine) /\ HasAtoms(lines, 1)) =>
                   /\ HoldsLatticeAndAtoms(lines, 1)
                   /\ parsed_data.coord_sys = <<VectorOn(lines[1], 1), VectorOn(lines[1], 2)>>
            /\ (TwoLineForm(lines, IsWordAtomLine) /\ HasAtoms(lines, 2)) =>
                   IF LatticeLines(lines, 3) = 3
                   THEN parsed_data = ParseException
                   ELSE /\ HoldsLatticeAndAtoms(lines, 2)
                        /\ parsed_data.coord_sys = [h \in 1..2 |-> VectorOn(lines[h], 1)]
            /\ NoAtomLine(lines) => parsed_data = ParseException

C9_Witness ==
    /\ parsed_data.raised = "none"
    /\ OneLineForm(Lines(atat_lattice_in), IsWordAtomLine)
    /\ Len(parsed_data.coord_sys) = 2
    /\ Len(parsed_data.atoms) = 2

====
